---- MODULE Spec2Model ----
(***************************************************************************)
(* Trace lifecycle of the Langfuse connector plugin                        *)
(* (src/langfuse_connector.py).                                            *)
(*                                                                         *)
(* The state is one conversation context (the `cat` object with the four   *)
(* ephemeral attributes the plugin adds), the callback list of the model   *)
(* layer (cat._llm.callbacks), and the objects the tracing backend hands   *)
(* out: handlers, clients and traces, each named by a number in order of   *)
(* construction.  Every hook is one action; each backend call it makes     *)
(* either returns or raises, drawn where the call is made.                 *)
(*                                                                         *)
(* Two specifications drive the hooks:                                     *)
(*   Spec     the host pipeline of a turn, over consecutive turns on the   *)
(*            same context: fast_reply, agent_fast_reply,                  *)
(*            agent_prompt_prefix, model invocation,                       *)
(*            before_cat_sends_message, with the two short circuits;       *)
(*   SpecAny  the hooks as entry points called in any order.               *)
(***************************************************************************)
EXTENDS Integers, Sequences, FiniteSets, TLC

VARIABLES
    cat,            \* the four ephemeral attributes of the context object
    callbacks,      \* cat._llm.callbacks when it is a list
    callbacksNone,  \* TRUE when cat._llm has no callbacks list (absent or None)
    handlerTrace,   \* handlerTrace[h]: the trace inside handler h, or None
    traceTurn,      \* traceTurn[t]: the turn in which trace t was created
    clients,        \* number of Langfuse clients constructed so far
    turn,           \* number of the turn in progress
    pc,             \* position of the host pipeline in the turn
    path,           \* the termination path the turn has taken
    info,           \* what has happened in the turn so far
    last,           \* the last hook call: inputs, state before, outcome
    ctx,            \* concurrent turns: each context's position and fields
    listId          \* identity of the list object now in cat._llm.callbacks

vars == <<cat, callbacks, callbacksNone, handlerTrace, traceTurn, clients,
          turn, pc, path, info, last, ctx, listId>>

world == <<cat, callbacks, callbacksNone, handlerTrace, traceTurn, clients>>

threads == <<ctx, listId>>

----------------------------------------------------------------------------
(* Bounds *)

MaxTurns == 2
MaxPrefixCalls == 2
MaxInvocations == 2
MaxObjects == 2

----------------------------------------------------------------------------
(* Values *)

\* Python's None, and an absent attribute (getattr(cat, name, None)).
None == 0

\* A callback that another component put on cat._llm.callbacks.
Other == -1

\* The settings a hook loads: the flag, and whether each key is non-empty.
Settings ==
    [enable_tracing : BOOLEAN,
     langfuse_public_key : BOOLEAN,
     langfuse_secret_key : BOOLEAN]

\* The outcomes of a backend call: made, it returns (TRUE) or raises
\* (FALSE); not made, there is nothing to draw.
Outcomes(made) == IF made THEN BOOLEAN ELSE {TRUE}

Contents == {"a", "b"}

\* A payload handed to a hook: the prefix string, the fast-reply dict
\* (output: whether the "output" key is there) or the outgoing message.
Payload(content, output) ==
    [content |-> content, output |-> output, langfuse_trace_id |-> None]

CleanCat ==
    [langfuse_handler |-> None,
     langfuse_handler_injected |-> FALSE,
     langfuse_fast_reply_trace |-> None,
     langfuse_client |-> None]

NoCall ==
    [hook |-> "none", settings |-> [enable_tracing |-> FALSE,
                                    langfuse_public_key |-> FALSE,
                                    langfuse_secret_key |-> FALSE],
     in |-> Payload("a", FALSE), out |-> Payload("a", FALSE),
     pre |-> CleanCat, preCallbacks |-> <<>>, preCallbacksNone |-> FALSE,
     resolving |-> FALSE, handler |-> None, preHandlerTrace |-> None,
     resolved |-> None,
     calls |-> <<>>, raised |-> FALSE, cleaned |-> FALSE]

\* Two context objects, for turns in flight at the same time, and a context
\* before its turn in that setting: where its turn stands, the path it
\* takes, its langfuse_handler field, what the `callbacks is None` test of
\* line 63 saw, the list object loaded for the append of line 65, and the
\* list built by the comprehension of line 308 (250) before it is assigned.
Contexts == {"A", "B"}

NewContext ==
    [pc |-> "start", path |-> "none", langfuse_handler |-> None,
     sawNone |-> FALSE, loaded |-> None, filtered |-> <<>>]

NewTurnInfo ==
    [enabled |-> TRUE, configured |-> TRUE, unconfigured |-> TRUE, ok |-> TRUE,
     traces |-> 0, constructed |-> FALSE, backend |-> FALSE,
     prefixCalls |-> 0, prefixAppends |-> 0, prefixHandlers |-> 0,
     invocations |-> 0, spanned |-> None, pending |-> {}]

----------------------------------------------------------------------------
(* Helpers of the hooks *)

\* settings.get("enable_tracing", True), and the check left out
AlwaysEnabled(s) == TRUE

TracingEnabled(s) == s.enable_tracing

\* settings.get("langfuse_public_key") and settings.get("langfuse_secret_key")
HasKeys(s) == s.langfuse_public_key /\ s.langfuse_secret_key

\* isinstance(fast_reply, dict) and "output" in fast_reply
HasOutput(p) == p.output

\* hasattr(cat, "langfuse_handler_injected"), and the guard left out
NeverInjected(c) == FALSE

AlreadyInjected(c) == c.langfuse_handler_injected

\* getattr(handler, "trace", None)
TraceOf(ht, h) == IF h = None THEN None ELSE ht[h]

\* The trace a hook works on: the handler's own, else the stored explicit one
\* (first, the two looked up in the other order).
ResolveTraceExplicitFirst(ht, c, h) ==
    IF c.langfuse_fast_reply_trace # None
    THEN c.langfuse_fast_reply_trace
    ELSE TraceOf(ht, h)

ResolveTrace(ht, c, h) ==
    IF TraceOf(ht, h) # None
    THEN TraceOf(ht, h)
    ELSE c.langfuse_fast_reply_trace

\* [cb for cb in cat._llm.callbacks if cb is not handler], and the list
\* left as it is
KeepHandler(cbs, h) == cbs

RemoveHandler(cbs, h) == SelectSeq(cbs, LAMBDA cb : cb # h)

\* One backend call in the log of a hook call.
Call(op, on, ok) == [op |-> op, on |-> on, ok |-> ok]

When(cond, call) == IF cond THEN <<call>> ELSE <<>>

\* `except Exception` at the end of agent_prompt_prefix: what escapes the hook.
AppEscapes(exc) == FALSE

\* `finally: cat.langfuse_handler_injected = True`
MarkInjected(c) == [c EXCEPT !.langfuse_handler_injected = TRUE]

----------------------------------------------------------------------------
(* agent_prompt_prefix(prefix, cat) *)

agent_prompt_prefix(s, prefix) ==
    LET build == TracingEnabled(s) /\ ~AlreadyInjected(cat) /\ HasKeys(s)
        h == Len(handlerTrace) + 1
    IN  \E okH \in Outcomes(build) :
        LET made == build /\ okH
            hExc == build /\ ~okH
            body == IF made THEN [cat EXCEPT !.langfuse_handler = h] ELSE cat
        IN  /\ cat' = MarkInjected(body)
            /\ callbacks' = IF made THEN Append(callbacks, h) ELSE callbacks
            /\ callbacksNone' = IF made THEN FALSE ELSE callbacksNone
            /\ handlerTrace' = IF made THEN Append(handlerTrace, None)
                               ELSE handlerTrace
            /\ UNCHANGED <<traceTurn, clients>>
            /\ last' = [NoCall EXCEPT
                          !.hook = "agent_prompt_prefix", !.settings = s,
                          !.in = prefix, !.out = prefix,
                          !.pre = cat, !.preCallbacks = callbacks,
                          !.preCallbacksNone = callbacksNone,
                          !.handler = IF made THEN h ELSE None,
                          !.calls = When(build, Call("handler", h, okH)),
                          !.raised = AppEscapes(hExc)]

----------------------------------------------------------------------------
(* The model invocation between agent_prompt_prefix and the finalizer: each *)
(* handler of the plugin on the callback list creates its trace on the      *)
(* first invocation it sees ("The handler automatically creates a trace on  *)
(* LLM execution"), unless the backend call fails.                          *)

\* The handlers on the callback list, in list order.
ListedHandlers == SelectSeq(callbacks, LAMBDA cb : cb # Other)

\* The listed handlers that have no trace yet.
Untraced == SelectSeq(ListedHandlers, LAMBDA h : handlerTrace[h] = None)

\* Position of h in seq (h occurs in seq).
RECURSIVE Rank(_, _)
Rank(seq, h) == IF Head(seq) = h THEN 1 ELSE 1 + Rank(Tail(seq), h)

model_invocation ==
    LET n == Len(traceTurn)
        inList(h) == \E i \in 1..Len(Untraced) : Untraced[i] = h
    IN  \E ok \in Outcomes(Untraced # <<>>) :
        /\ handlerTrace' =
              [h \in DOMAIN handlerTrace |->
                  IF ok /\ inList(h) THEN n + Rank(Untraced, h)
                  ELSE handlerTrace[h]]
        /\ traceTurn' = IF ok
                        THEN traceTurn \o [i \in 1..Len(Untraced) |-> turn]
                        ELSE traceTurn
        /\ UNCHANGED <<cat, callbacks, callbacksNone, clients>>
        /\ last' = [NoCall EXCEPT
                      !.hook = "model_invocation",
                      !.pre = cat, !.preCallbacks = callbacks,
                      !.preCallbacksNone = callbacksNone,
                      !.calls = [i \in 1..Len(Untraced) |->
                                    Call("llm_trace", n + i, ok)]]

----------------------------------------------------------------------------
(* before_cat_sends_message(message, cat) *)

\* message.langfuse_trace_id = llm_trace.id (first, the assignment left out).
\* The message is the host's message object, which takes new attributes, and
\* a trace object always has an id.
KeepMessage(message, t) == message

AttachTraceId(message, t) == [message EXCEPT !.langfuse_trace_id = t]

\* The finally block: the three delattr calls (first, with the delattr of
\* langfuse_fast_reply_trace left out).
BcsmCleanupKeepsTrace(c) ==
    [c EXCEPT !.langfuse_handler = None,
              !.langfuse_handler_injected = FALSE]

BcsmCleanup(c) ==
    [c EXCEPT !.langfuse_handler = None,
              !.langfuse_handler_injected = FALSE,
              !.langfuse_fast_reply_trace = None]

\* `except Exception` of before_cat_sends_message.
BcsmEscapes(exc) == FALSE

before_cat_sends_message(message) ==
    LET handler == cat.langfuse_handler
        llm_trace == ResolveTrace(handlerTrace, cat, handler)
        doUpdate == llm_trace # None
    IN  \E uOk \in Outcomes(doUpdate) :
        /\ cat' = BcsmCleanup(cat)
        /\ callbacks' = IF handler # None /\ ~callbacksNone
                        THEN RemoveHandler(callbacks, handler)
                        ELSE callbacks
        /\ UNCHANGED <<callbacksNone, handlerTrace, traceTurn, clients>>
        /\ last' = [NoCall EXCEPT
                      !.hook = "before_cat_sends_message",
                      !.in = message,
                      !.out = IF doUpdate /\ uOk
                              THEN AttachTraceId(message, llm_trace)
                              ELSE message,
                      !.pre = cat, !.preCallbacks = callbacks,
                      !.preCallbacksNone = callbacksNone,
                      !.resolving = TRUE,
                      !.handler = handler,
                      !.preHandlerTrace = TraceOf(handlerTrace, handler),
                      !.resolved = llm_trace,
                      !.calls = When(doUpdate, Call("update", llm_trace, uOk)),
                      !.raised = BcsmEscapes(doUpdate /\ ~uOk),
                      !.cleaned = TRUE]

----------------------------------------------------------------------------
(* agent_fast_reply(fast_reply, cat) *)

\* `if not current_trace:` ... `if handler:` -- build an explicit trace
\* (first, with the test on current_trace inverted).
NeedsExplicitTraceInverted(t, h) == t # None /\ h # None

NeedsExplicitTrace(t, h) == t = None /\ h # None

\* `except Exception` at the end of agent_fast_reply (first, the clause
\* left out: the exception leaves the hook).
AfrNoExcept(exc) == exc

AfrEscapes(exc) == FALSE

\* `if handler:` before handler.flush() (lines 159 and 237), and a hook
\* that leaves without the flush.
FlushSkipped(h) == FALSE

FlushesHandler(h) == h # None

\* agent_fast_reply has no cleanup block: after the flush it returns with the
\* context as it stands (lines 158-165).  First, the hook with the cleanup
\* block of fast_reply pasted in.
AfrExitCleans(c) ==
    [c EXCEPT !.langfuse_handler = None,
              !.langfuse_handler_injected = FALSE,
              !.langfuse_fast_reply_trace = None,
              !.langfuse_client = None]

AfrExit(c) == c

\* Lines 97-110 (and 190-199 of fast_reply): take the handler from the
\* context, or construct and store one when both keys are set.
AcquireHandler(act, s, okH) ==
    LET h0 == cat.langfuse_handler
        build == act /\ h0 = None /\ HasKeys(s)
        made == build /\ okH
        newH == Len(handlerTrace) + 1
    IN  [build |-> build,
         hExc |-> build /\ ~okH,
         reached |-> act /\ ~(build /\ ~okH),
         handler |-> IF made THEN newH ELSE h0,
         newH |-> newH,
         ht |-> IF made THEN Append(handlerTrace, None) ELSE handlerTrace,
         cat |-> IF made THEN [cat EXCEPT !.langfuse_handler = newH]
                 ELSE cat]

\* Lines 112-118 (and 201-203): the trace resolved before any is built, and
\* whether an explicit one is to be built.
ResolveStage(a) ==
    LET t0 == IF a.reached THEN ResolveTrace(a.ht, a.cat, a.handler)
              ELSE None
    IN  [t0 |-> t0,
         create |-> a.reached /\ NeedsExplicitTrace(t0, a.handler)]

\* Lines 123-142 (and 206-223): the explicit client and trace.  First, the
\* stage without the assignment of line 137 (and 218).
ExplicitTraceNotKept(a, r, okC, okT) ==
    LET tTry == r.create /\ okC
        tOk == tTry /\ okT
        newC == clients + 1
        newT == Len(traceTurn) + 1
    IN  [tTry |-> tTry,
         tOk |-> tOk,
         newC |-> newC,
         newT |-> newT,
         failed |-> r.create /\ ~tOk,
         cat |-> IF tOk
                 THEN [a.cat EXCEPT !.langfuse_client = newC]
                 ELSE a.cat,
         current_trace |-> IF tOk THEN newT ELSE r.t0]

ExplicitTrace(a, r, okC, okT) ==
    LET tTry == r.create /\ okC
        tOk == tTry /\ okT
        newC == clients + 1
        newT == Len(traceTurn) + 1
    IN  [tTry |-> tTry,
         tOk |-> tOk,
         newC |-> newC,
         newT |-> newT,
         failed |-> r.create /\ ~tOk,
         cat |-> IF tOk
                 THEN [a.cat EXCEPT !.langfuse_client = newC,
                                    !.langfuse_fast_reply_trace = newT]
                 ELSE a.cat,
         current_trace |-> IF tOk THEN newT ELSE r.t0]

agent_fast_reply(s, fast_reply) ==
    LET act == TracingEnabled(s) /\ HasOutput(fast_reply)
    IN  \E okH \in Outcomes(act /\ cat.langfuse_handler = None /\ HasKeys(s)) :
        \E a \in {AcquireHandler(act, s, okH)} :
        \E r \in {ResolveStage(a)} :
        \E okC \in Outcomes(r.create) :
        \E okT \in Outcomes(r.create /\ okC) :
        \E e \in {ExplicitTrace(a, r, okC, okT)} :
        \E doSpan \in {a.reached /\ e.current_trace # None} :
        \E okS \in Outcomes(doSpan) :
        \E doFlush \in {doSpan /\ okS /\ FlushesHandler(a.handler)} :
        \E okF \in Outcomes(doFlush) :
        LET exc == a.hExc \/ (doSpan /\ ~okS) \/ (doFlush /\ ~okF)
        IN  /\ cat' = AfrExit(e.cat)
            /\ handlerTrace' = a.ht
            /\ traceTurn' = IF e.tOk THEN Append(traceTurn, turn)
                            ELSE traceTurn
            /\ clients' = IF e.tTry THEN e.newC ELSE clients
            /\ UNCHANGED <<callbacks, callbacksNone>>
            /\ last' = [NoCall EXCEPT
                  !.hook = "agent_fast_reply", !.settings = s,
                  !.in = fast_reply, !.out = fast_reply,
                  !.pre = cat, !.preCallbacks = callbacks,
                  !.preCallbacksNone = callbacksNone,
                  !.resolving = a.reached,
                  !.handler = IF a.reached THEN a.handler ELSE None,
                  !.preHandlerTrace =
                      IF a.reached THEN TraceOf(a.ht, a.handler) ELSE None,
                  !.resolved = IF a.reached THEN e.current_trace ELSE None,
                  !.calls =
                      When(a.build, Call("handler", a.newH, okH))
                      \o When(r.create, Call("client", e.newC, okC))
                      \o When(e.tTry, Call("trace", e.newT, okT))
                      \o When(doSpan, Call("span", e.current_trace, okS))
                      \o When(doFlush, Call("flush", a.handler, okF)),
                  !.raised = AfrEscapes(exc)]

----------------------------------------------------------------------------
(* fast_reply(fast_reply, cat) *)

\* The cleanup block of fast_reply: the four delattr calls.
FrCleanup(c) ==
    [c EXCEPT !.langfuse_handler = None,
              !.langfuse_handler_injected = FALSE,
              !.langfuse_fast_reply_trace = None,
              !.langfuse_client = None]

\* `return fast_reply` in the handler of a failed explicit trace (line 223),
\* and the outer `except` after a failed handler construction: both leave
\* the hook before its cleanup block.
FrSkipsCleanup(hExc, traceFailed) == hExc \/ traceFailed

\* `except Exception` at the end of fast_reply.
FrEscapes(exc) == FALSE

fast_reply(s, payload) ==
    LET act == TracingEnabled(s) /\ HasOutput(payload)
    IN  \E okH \in Outcomes(act /\ cat.langfuse_handler = None /\ HasKeys(s)) :
        \E a \in {AcquireHandler(act, s, okH)} :
        \E r \in {ResolveStage(a)} :
        \E okC \in Outcomes(r.create) :
        \E okT \in Outcomes(r.create /\ okC) :
        \E e \in {ExplicitTrace(a, r, okC, okT)} :
        \E cleanup \in {act /\ ~FrSkipsCleanup(a.hExc, e.failed)} :
        \E doSpan \in {cleanup /\ e.current_trace # None} :
        \E okS \in Outcomes(doSpan) :
        \E doUpdate \in {doSpan /\ okS} :
        \E doFlush \in {doSpan /\ okS /\ FlushesHandler(a.handler)} :
        \E okU \in Outcomes(doUpdate) :
        \E okF \in Outcomes(doFlush) :
        \E doClientFlush \in {/\ doSpan /\ okS
                              /\ doFlush => okF
                              /\ e.cat.langfuse_client # None} :
        \E okCF \in Outcomes(doClientFlush) :
            /\ cat' = IF cleanup THEN FrCleanup(e.cat) ELSE e.cat
            /\ callbacks' =
                  IF cleanup /\ a.handler # None /\ ~callbacksNone
                  THEN RemoveHandler(callbacks, a.handler)
                  ELSE callbacks
            /\ handlerTrace' = a.ht
            /\ traceTurn' = IF e.tOk THEN Append(traceTurn, turn)
                            ELSE traceTurn
            /\ clients' = IF e.tTry THEN e.newC ELSE clients
            /\ UNCHANGED callbacksNone
            /\ last' = [NoCall EXCEPT
                  !.hook = "fast_reply", !.settings = s,
                  !.in = payload, !.out = payload,
                  !.pre = cat, !.preCallbacks = callbacks,
                  !.preCallbacksNone = callbacksNone,
                  !.resolving = a.reached,
                  !.handler = IF a.reached THEN a.handler ELSE None,
                  !.preHandlerTrace =
                      IF a.reached THEN TraceOf(a.ht, a.handler) ELSE None,
                  !.resolved = IF a.reached THEN e.current_trace ELSE None,
                  !.calls =
                      When(a.build, Call("handler", a.newH, okH))
                      \o When(r.create, Call("client", e.newC, okC))
                      \o When(e.tTry, Call("trace", e.newT, okT))
                      \o When(doSpan, Call("span", e.current_trace, okS))
                      \o When(doUpdate, Call("update", e.current_trace, okU))
                      \o When(doFlush, Call("flush", a.handler, okF))
                      \o When(doClientFlush,
                              Call("client_flush", e.cat.langfuse_client,
                                   okCF)),
                  !.raised = FrEscapes(a.hExc),
                  !.cleaned = cleanup]

----------------------------------------------------------------------------
(* on_cat_shutdown(cat) *)

on_cat_shutdown ==
    LET handler == cat.langfuse_handler
        doFlush == handler # None
    IN  \E okF \in Outcomes(doFlush) :
        /\ UNCHANGED world
        /\ last' = [NoCall EXCEPT
                      !.hook = "on_cat_shutdown",
                      !.pre = cat, !.preCallbacks = callbacks,
                      !.preCallbacksNone = callbacksNone,
                      !.handler = handler,
                      !.calls = When(doFlush, Call("flush", handler, okF))]

----------------------------------------------------------------------------
(* What a hook call adds to the record of the turn *)

Configured(s) == TracingEnabled(s) /\ HasKeys(s)

RemoteOps == {"trace", "span", "update", "flush", "client_flush", "llm_trace"}

AllOk(calls) == \A i \in DOMAIN calls : calls[i].ok

AnyRemote(calls) == \E i \in DOMAIN calls : calls[i].op \in RemoteOps

\* The trace on which the calls of a hook recorded a span, if they did
SpanTrace(calls) ==
    IF \E i \in DOMAIN calls : calls[i].op = "span" /\ calls[i].ok
    THEN (CHOOSE c \in {calls[i] : i \in DOMAIN calls} :
              c.op = "span" /\ c.ok).on
    ELSE None

\* The client a trace written by a hook call belongs to: the handler's own
\* client for the handler's trace, and for an explicit trace the Langfuse
\* client that created it, which lines 136-137 (and 217-218) store next to
\* it in cat.langfuse_client.
OwnerOf(l, t) ==
    IF t = l.preHandlerTrace
    THEN [kind |-> "handler", id |-> l.handler]
    ELSE [kind |-> "client",
          id |-> IF \E i \in DOMAIN l.calls : l.calls[i].op = "client"
                 THEN (CHOOSE c \in {l.calls[i] : i \in DOMAIN l.calls} :
                           c.op = "client").on
                 ELSE l.pre.langfuse_client]

Writes == {"trace", "span", "update"}

\* The owners with a write no flush call has followed, after the calls
\* i.. of hook call l, given those before.
RECURSIVE PendingAfter(_, _, _)
PendingAfter(l, i, P) ==
    IF i > Len(l.calls) THEN P
    ELSE LET c == l.calls[i]
         IN  PendingAfter(l, i + 1,
                CASE c.op \in Writes /\ c.ok -> P \cup {OwnerOf(l, c.on)}
                  [] c.op = "flush" ->
                        P \ {[kind |-> "handler", id |-> c.on]}
                  [] c.op = "client_flush" ->
                        P \ {[kind |-> "client", id |-> c.on]}
                  [] OTHER -> P)

Tally ==
    [info EXCEPT
        !.pending = PendingAfter(last', 1, @),
        !.spanned = IF last'.hook = "agent_fast_reply"
                    THEN SpanTrace(last'.calls) ELSE @,
        !.ok = @ /\ AllOk(last'.calls),
        !.traces = @ + Len(traceTurn') - Len(traceTurn),
        !.constructed = @ \/ Len(handlerTrace') > Len(handlerTrace)
                          \/ clients' > clients
                          \/ Len(traceTurn') > Len(traceTurn),
        !.backend = @ \/ AnyRemote(last'.calls)]

TallySettings(s) ==
    [Tally EXCEPT
        !.enabled = @ /\ TracingEnabled(s),
        !.configured = @ /\ Configured(s),
        !.unconfigured = @ /\ ~Configured(s)]

----------------------------------------------------------------------------
(* The host pipeline of a turn *)

Init ==
    /\ cat = CleanCat
    /\ callbacksNone \in BOOLEAN
    /\ callbacks \in {<<>>, <<Other>>}
    /\ callbacksNone => callbacks = <<>>
    /\ handlerTrace = <<>>
    /\ traceTurn = <<>>
    /\ clients = 0
    /\ turn = 1
    /\ pc = "fast_reply"
    /\ path = "none"
    /\ info = NewTurnInfo
    /\ last = NoCall
    /\ ctx = [c \in Contexts |-> NewContext]
    /\ listId = 1

FastReplyStep ==
    /\ pc = "fast_reply"
    /\ \E s \in Settings, c \in Contents, out \in BOOLEAN :
          /\ fast_reply(s, Payload(c, out))
          /\ info' = TallySettings(s)
          /\ pc' = IF out THEN "done" ELSE "agent_fast_reply"
          /\ path' = IF out THEN "pre_agent" ELSE path
    /\ UNCHANGED turn
    /\ UNCHANGED threads

AgentFastReplyStep ==
    /\ pc = "agent_fast_reply"
    /\ \E s \in Settings, c \in Contents, out \in BOOLEAN :
          /\ agent_fast_reply(s, Payload(c, out))
          /\ info' = TallySettings(s)
          /\ pc' = IF out THEN "before_cat_sends_message"
                   ELSE "agent_prompt_prefix"
          /\ path' = IF out THEN "agent" ELSE path
    /\ UNCHANGED turn
    /\ UNCHANGED threads

PrefixStep ==
    /\ pc = "agent_prompt_prefix"
    /\ info.prefixCalls < MaxPrefixCalls
    /\ \E s \in Settings, c \in Contents :
          /\ agent_prompt_prefix(s, Payload(c, FALSE))
          /\ info' = [TallySettings(s) EXCEPT
                        !.prefixCalls = @ + 1,
                        !.prefixAppends = @ + Len(callbacks') - Len(callbacks),
                        !.prefixHandlers =
                            @ + Len(handlerTrace') - Len(handlerTrace)]
    /\ pc' \in {"agent_prompt_prefix", "model"}
    /\ pc' = "agent_prompt_prefix" => info'.prefixCalls < MaxPrefixCalls
    /\ UNCHANGED <<turn, path>>
    /\ UNCHANGED threads

InvocationStep ==
    /\ pc = "model"
    /\ info.invocations < MaxInvocations
    /\ model_invocation
    /\ info' = [Tally EXCEPT !.invocations = @ + 1]
    /\ pc' \in {"model", "agent_prompt_prefix", "before_cat_sends_message"}
    /\ pc' = "model" => info'.invocations < MaxInvocations
    /\ pc' = "agent_prompt_prefix" => info'.prefixCalls < MaxPrefixCalls
    /\ path' = "normal"
    /\ UNCHANGED turn
    /\ UNCHANGED threads

FinalizeStep ==
    /\ pc = "before_cat_sends_message"
    /\ \E c \in Contents :
          /\ before_cat_sends_message(Payload(c, FALSE))
          /\ info' = Tally
    /\ pc' = "done"
    /\ UNCHANGED <<turn, path>>
    /\ UNCHANGED threads

NextTurn ==
    /\ pc = "done"
    /\ turn < MaxTurns
    /\ turn' = turn + 1
    /\ pc' = "fast_reply"
    /\ path' = "none"
    /\ info' = NewTurnInfo
    /\ last' = NoCall
    /\ UNCHANGED world
    /\ UNCHANGED threads

ShutdownStep ==
    /\ pc = "done"
    /\ on_cat_shutdown
    /\ pc' = "shutdown"
    /\ UNCHANGED <<turn, path, info>>
    /\ UNCHANGED threads

Next ==
    \/ FastReplyStep
    \/ AgentFastReplyStep
    \/ PrefixStep
    \/ InvocationStep
    \/ FinalizeStep
    \/ NextTurn
    \/ ShutdownStep

Spec == Init /\ [][Next]_vars

----------------------------------------------------------------------------
(* The hooks as entry points, called in any order *)

InitAny ==
    /\ cat = CleanCat
    /\ callbacksNone \in BOOLEAN
    /\ callbacks \in {<<>>, <<Other>>}
    /\ callbacksNone => callbacks = <<>>
    /\ handlerTrace = <<>>
    /\ traceTurn = <<>>
    /\ clients = 0
    /\ turn = 1
    /\ pc = "any"
    /\ path = "none"
    /\ info = NewTurnInfo
    /\ last = NoCall
    /\ ctx = [c \in Contexts |-> NewContext]
    /\ listId = 1

\* The inputs of this specification: both keys set or neither, one content.
SettingsAny ==
    {s \in Settings : s.langfuse_public_key = s.langfuse_secret_key}

ContentsAny == {"a"}

\* The objects constructed stay within the bound.
Within ==
    /\ Len(handlerTrace') <= MaxObjects
    /\ Len(traceTurn') <= MaxObjects
    /\ clients' <= MaxObjects

AnyFastReply ==
    /\ \E s \in SettingsAny, c \in ContentsAny, out \in BOOLEAN :
          fast_reply(s, Payload(c, out))
    /\ Within
    /\ UNCHANGED <<turn, pc, path, info>>
    /\ UNCHANGED threads

AnyAgentFastReply ==
    /\ \E s \in SettingsAny, c \in ContentsAny, out \in BOOLEAN :
          agent_fast_reply(s, Payload(c, out))
    /\ Within
    /\ UNCHANGED <<turn, pc, path, info>>
    /\ UNCHANGED threads

AnyPrefix ==
    /\ \E s \in SettingsAny, c \in ContentsAny :
          agent_prompt_prefix(s, Payload(c, FALSE))
    /\ Within
    /\ UNCHANGED <<turn, pc, path, info>>
    /\ UNCHANGED threads

AnyInvocation ==
    /\ model_invocation
    /\ Within
    /\ UNCHANGED <<turn, pc, path, info>>
    /\ UNCHANGED threads

AnyFinalize ==
    /\ \E c \in ContentsAny :
          before_cat_sends_message(Payload(c, FALSE))
    /\ UNCHANGED <<turn, pc, path, info>>
    /\ UNCHANGED threads

AnyShutdown ==
    /\ on_cat_shutdown
    /\ UNCHANGED <<turn, pc, path, info>>
    /\ UNCHANGED threads

NextAny ==
    \/ AnyFastReply
    \/ AnyAgentFastReply
    \/ AnyPrefix
    \/ AnyInvocation
    \/ AnyFinalize
    \/ AnyShutdown

SpecAny == InitAny /\ [][NextAny]_vars

----------------------------------------------------------------------------
(* Turns of two contexts in flight at once, sharing cat._llm.callbacks *)

\* The hooks are plain functions the host runs on its workers, and nothing
\* in them locks the list, so the statements that touch it interleave at
\* each load and store of cat._llm.callbacks.  Tracing is enabled and
\* configured and the backend calls succeed; a turn is a normal one
\* (agent_prompt_prefix, then the cleanup of before_cat_sends_message) or
\* a pre-agent short circuit (the handler and the cleanup of fast_reply).

AtContext(c, f) == [ctx EXCEPT ![c] = f]

\* Lines 56-63: the handler is constructed and the test
\* `not hasattr(cat._llm, "callbacks") or cat._llm.callbacks is None` made.
PrefixConstruct(c) ==
    /\ ctx[c].pc = "start"
    /\ handlerTrace' = Append(handlerTrace, None)
    /\ ctx' = AtContext(c, [ctx[c] EXCEPT
                              !.pc = "tested", !.path = "normal",
                              !.langfuse_handler = Len(handlerTrace) + 1,
                              !.sawNone = callbacksNone])
    /\ UNCHANGED <<callbacks, callbacksNone, listId>>

\* Line 64: cat._llm.callbacks = [], a new list object, when the test held.
PrefixNewList(c) ==
    /\ ctx[c].pc = "tested"
    /\ IF ctx[c].sawNone
       THEN /\ callbacks' = <<>>
            /\ callbacksNone' = FALSE
            /\ listId' = listId + 1
       ELSE UNCHANGED <<callbacks, callbacksNone, listId>>
    /\ ctx' = AtContext(c, [ctx[c] EXCEPT !.pc = "load"])
    /\ UNCHANGED handlerTrace

\* Line 65, first half: cat._llm.callbacks is evaluated to a list object.
PrefixLoadList(c) ==
    /\ ctx[c].pc = "load"
    /\ ctx' = AtContext(c, [ctx[c] EXCEPT !.pc = "append",
                                          !.loaded = listId])
    /\ UNCHANGED <<callbacks, callbacksNone, listId, handlerTrace>>

\* Line 65, second half, and line 66: append(handler) on the loaded object,
\* which reaches cat._llm.callbacks only if that object is still the one
\* the attribute holds.
PrefixAppend(c) ==
    /\ ctx[c].pc = "append"
    /\ callbacks' = IF ctx[c].loaded = listId
                    THEN Append(callbacks, ctx[c].langfuse_handler)
                    ELSE callbacks
    /\ ctx' = AtContext(c, [ctx[c] EXCEPT !.pc = "registered"])
    /\ UNCHANGED <<callbacksNone, listId, handlerTrace>>

\* Lines 190-199 of fast_reply with an output: a handler of its own, which
\* is never appended.
FastReplyConstruct(c) ==
    /\ ctx[c].pc = "start"
    /\ handlerTrace' = Append(handlerTrace, None)
    /\ ctx' = AtContext(c, [ctx[c] EXCEPT
                              !.pc = "registered", !.path = "pre_agent",
                              !.langfuse_handler = Len(handlerTrace) + 1])
    /\ UNCHANGED <<callbacks, callbacksNone, listId>>

\* Lines 302-308 (248-250), right-hand side: the test on the attribute and
\* [cb for cb in cat._llm.callbacks if cb is not handler].
CleanupFilter(c) ==
    /\ ctx[c].pc = "registered"
    /\ ctx' = AtContext(c,
                IF callbacksNone
                THEN [ctx[c] EXCEPT !.pc = "done", !.langfuse_handler = None]
                ELSE [ctx[c] EXCEPT
                        !.pc = "assign",
                        !.filtered =
                            RemoveHandler(callbacks,
                                          ctx[c].langfuse_handler)])
    /\ UNCHANGED <<callbacks, callbacksNone, listId, handlerTrace>>

\* Lines 305 (248), left-hand side: the new list object is stored in
\* cat._llm.callbacks; then the delattr calls.
CleanupAssign(c) ==
    /\ ctx[c].pc = "assign"
    /\ callbacks' = ctx[c].filtered
    /\ listId' = listId + 1
    /\ ctx' = AtContext(c, [ctx[c] EXCEPT !.pc = "done",
                                          !.langfuse_handler = None])
    /\ UNCHANGED <<callbacksNone, handlerTrace>>

Idle == UNCHANGED <<cat, traceTurn, clients, turn, pc, path, info, last>>

ConcPrefixConstruct == (\E c \in Contexts : PrefixConstruct(c)) /\ Idle

ConcPrefixNewList == (\E c \in Contexts : PrefixNewList(c)) /\ Idle

ConcPrefixLoadList == (\E c \in Contexts : PrefixLoadList(c)) /\ Idle

ConcPrefixAppend == (\E c \in Contexts : PrefixAppend(c)) /\ Idle

ConcFastReplyConstruct == (\E c \in Contexts : FastReplyConstruct(c)) /\ Idle

ConcCleanupFilter == (\E c \in Contexts : CleanupFilter(c)) /\ Idle

ConcCleanupAssign == (\E c \in Contexts : CleanupAssign(c)) /\ Idle

NextConc ==
    \/ ConcPrefixConstruct
    \/ ConcPrefixNewList
    \/ ConcPrefixLoadList
    \/ ConcPrefixAppend
    \/ ConcFastReplyConstruct
    \/ ConcCleanupFilter
    \/ ConcCleanupAssign

SpecConc == Init /\ [][NextConc]_vars

----------------------------------------------------------------------------
(* Properties *)

Failed(calls, op) == \E i \in DOMAIN calls : calls[i].op = op /\ ~calls[i].ok

Succeeded(calls, op) == \E i \in DOMAIN calls : calls[i].op = op /\ calls[i].ok

Made(calls, op) == \E i \in DOMAIN calls : calls[i].op = op

CountOf(calls, op) == Cardinality({i \in DOMAIN calls : calls[i].op = op})

FrameKept ==
    /\ cat = last.pre
    /\ callbacks = last.preCallbacks
    /\ callbacksNone = last.preCallbacksNone

\* C1: once before_cat_sends_message has returned, the context carries none
\* of langfuse_handler, langfuse_handler_injected, langfuse_fast_reply_trace,
\* langfuse_client, whatever preceded it in the turn and whether or not the
\* update raised.
C1_FinalizerClearsContext ==
    last.hook = "before_cat_sends_message" => cat = CleanCat

\* C2: once fast_reply has returned from a call with tracing enabled and an
\* output in the payload, the context carries none of the four fields,
\* whichever backend calls failed inside it.
C2_FastReplyClearsContext ==
    (/\ last.hook = "fast_reply"
     /\ last.settings.enable_tracing
     /\ last.in.output)
    => cat = CleanCat

\* C3: a finished turn in which every hook saw tracing enabled with both keys
\* and no backend call failed has created exactly one trace, on each of the
\* three termination paths.
C3_OneTracePerTurn ==
    (pc = "done" /\ info.configured /\ info.ok) => info.traces = 1

C3_Witness ==
    /\ pc = "done" /\ turn = 2 /\ path = "normal"
    /\ info.configured /\ info.ok /\ info.traces = 1

\* C4: over the calls of agent_prompt_prefix in one turn at most one handler
\* is constructed and at most one is appended to the callback list; the
\* injected flag is present whenever the hook has returned; a second or
\* later call of the turn constructs nothing and changes nothing.
C4_PrefixAtMostOnce ==
    /\ info.prefixAppends <= 1
    /\ info.prefixHandlers <= 1
    /\ last.hook = "agent_prompt_prefix" =>
          /\ cat.langfuse_handler_injected
          /\ info.prefixCalls >= 2 => (last.calls = <<>> /\ FrameKept)

C4_Witness ==
    /\ last.hook = "agent_prompt_prefix"
    /\ info.prefixCalls = 2
    /\ info.configured
    /\ ~info.ok
    /\ info.prefixHandlers = 0
    /\ cat.langfuse_handler = None

\* C5: no hook lets an exception escape, whichever backend calls fail; the
\* payload a hook returns has the content it received; only
\* before_cat_sends_message changes the payload, by the trace id it attaches
\* when the update succeeded and leaves out when the update failed.
C5_FailuresStayInside ==
    /\ ~last.raised
    /\ last.out.content = last.in.content
    /\ last.out.output = last.in.output
    /\ last.hook # "before_cat_sends_message" => last.out = last.in
    /\ last.hook = "before_cat_sends_message" =>
          /\ Succeeded(last.calls, "update") =>
                (last.resolved # None
                   /\ last.out.langfuse_trace_id = last.resolved)
          /\ ~Succeeded(last.calls, "update") =>
                last.out.langfuse_trace_id = None

C5_Witness ==
    /\ last.hook = "agent_fast_reply"
    /\ Failed(last.calls, "span")
    /\ ~last.raised
    /\ last.out = last.in

\* C6 as stated: a turn finished on the normal path with tracing enabled and
\* no backend failure returns a reply with a trace id; a turn finished on
\* the pre-agent short circuit returns a reply without one.
C6_TraceIdOnNormalPath ==
    /\ (pc = "done" /\ path = "normal" /\ info.enabled /\ info.ok)
          => last.out.langfuse_trace_id # None
    /\ (pc = "done" /\ path = "pre_agent")
          => last.out.langfuse_trace_id = None

\* C6, amended: the same with both keys present as well.
C6_TraceIdOnNormalPathWithKeys ==
    /\ (pc = "done" /\ path = "normal" /\ info.configured /\ info.ok)
          => (/\ last.hook = "before_cat_sends_message"
              /\ last.out.langfuse_trace_id # None
              /\ last.out.langfuse_trace_id = last.resolved)
    /\ (pc = "done" /\ path = "pre_agent")
          => last.out.langfuse_trace_id = None

C6_Witness ==
    /\ pc = "done" /\ path = "normal" /\ info.configured /\ info.ok
    /\ last.out.langfuse_trace_id # None

\* C7: the trace a hook resolves (to record a span on, to update, to take
\* the id from) was created in the turn in progress, over consecutive turns
\* on the same context and with any backend call failing.
C7_NoTraceReuseAcrossTurns ==
    last.resolved # None => traceTurn[last.resolved] = turn

C7_Witness ==
    /\ turn = 2
    /\ last.hook = "agent_fast_reply"
    /\ last.pre.langfuse_handler # None
    /\ last.resolved # None
    /\ traceTurn[last.resolved] = 2

\* C8: while every hook call of the turn saw tracing disabled or a key
\* missing, the turn has constructed no handler, client or trace and made no
\* backend call.
C8_NothingWithoutConfiguration ==
    info.unconfigured => (~info.constructed /\ ~info.backend)

\* C9: agent_fast_reply, fast_reply and before_cat_sends_message work on the
\* handler's trace when there is one, else on the stored explicit trace; the
\* short-circuit hooks build a new explicit trace only when there is
\* neither, and make one span call, on the trace they resolved.
C9_HandlerTraceFirst ==
    last.resolving =>
       /\ last.preHandlerTrace # None => last.resolved = last.preHandlerTrace
       /\ (last.preHandlerTrace = None
             /\ last.pre.langfuse_fast_reply_trace # None)
          => last.resolved = last.pre.langfuse_fast_reply_trace
       /\ Made(last.calls, "trace") =>
             (/\ last.preHandlerTrace = None
              /\ last.pre.langfuse_fast_reply_trace = None)
       /\ last.hook \in {"agent_fast_reply", "fast_reply"} =>
             /\ last.resolved # None =>
                   (/\ CountOf(last.calls, "span") = 1
                    /\ \A i \in DOMAIN last.calls :
                          last.calls[i].op = "span"
                             => last.calls[i].on = last.resolved)
             /\ last.resolved = None => ~Made(last.calls, "span")

C9_Witness ==
    /\ last.hook = "agent_fast_reply"
    /\ last.preHandlerTrace # None
    /\ last.pre.langfuse_fast_reply_trace # None
    /\ last.preHandlerTrace # last.pre.langfuse_fast_reply_trace
    /\ Succeeded(last.calls, "span")

\* C10 as stated: with tracing disabled, or with the injected flag already
\* present, agent_prompt_prefix leaves the four context fields and the
\* callback list exactly as they were.
C10_PrefixNoOp ==
    (/\ last.hook = "agent_prompt_prefix"
     /\ (~last.settings.enable_tracing
           \/ last.pre.langfuse_handler_injected))
    => FrameKept

\* C10, amended: in those cases agent_prompt_prefix constructs nothing and
\* leaves langfuse_handler, langfuse_fast_reply_trace, langfuse_client and
\* the callback list as they were; the injected flag is present afterwards,
\* so with the flag already present nothing changes at all, and with
\* tracing disabled the flag is the one thing that may have been added.
C10_PrefixOnlyMarks ==
    (/\ last.hook = "agent_prompt_prefix"
     /\ (~last.settings.enable_tracing
           \/ last.pre.langfuse_handler_injected))
    => /\ last.calls = <<>>
       /\ cat = MarkInjected(last.pre)
       /\ callbacks = last.preCallbacks
       /\ callbacksNone = last.preCallbacksNone
       /\ last.pre.langfuse_handler_injected => FrameKept

C10_Witness ==
    /\ last.hook = "agent_prompt_prefix"
    /\ ~last.settings.enable_tracing
    /\ ~last.pre.langfuse_handler_injected
    /\ cat.langfuse_handler_injected
    /\ cat.langfuse_handler = last.pre.langfuse_handler

Present(c) ==
    [langfuse_handler |-> c.langfuse_handler # None,
     langfuse_handler_injected |-> c.langfuse_handler_injected,
     langfuse_fast_reply_trace |-> c.langfuse_fast_reply_trace # None,
     langfuse_client |-> c.langfuse_client # None]

ContextFields == DOMAIN CleanCat

\* C11: agent_fast_reply removes nothing: each of the four context fields
\* present before the call is present after it, and the callback list is
\* the one it was, on every exit of the hook.
C11_AgentFastReplyRemovesNothing ==
    last.hook = "agent_fast_reply" =>
       /\ \A f \in ContextFields : Present(last.pre)[f] => Present(cat)[f]
       /\ callbacks = last.preCallbacks
       /\ callbacksNone = last.preCallbacksNone

C11_Witness ==
    /\ last.hook = "agent_fast_reply"
    /\ \A f \in ContextFields : Present(last.pre)[f]
    /\ Len(callbacks) = 2
    /\ Failed(last.calls, "span")

\* C12: on the agent-level short-circuit path of a turn whose backend calls
\* all succeed, the trace before_cat_sends_message updates, and whose id it
\* puts on the message, is the trace agent_fast_reply recorded its span on
\* earlier in the turn; with tracing enabled and both keys set there is
\* such a span.
C12_FinalizerUsesSpannedTrace ==
    (pc = "done" /\ path = "agent" /\ info.ok) =>
       /\ info.configured => info.spanned # None
       /\ info.spanned # None =>
             /\ last.hook = "before_cat_sends_message"
             /\ last.resolved = info.spanned
             /\ \E i \in DOMAIN last.calls :
                   last.calls[i] = Call("update", info.spanned, TRUE)
             /\ last.out.langfuse_trace_id = info.spanned

C12_Witness ==
    /\ pc = "done" /\ path = "agent" /\ info.ok /\ info.configured
    /\ turn = 2
    /\ info.spanned = 2
    /\ last.out.langfuse_trace_id = 2

\* C13: whenever agent_fast_reply records a span on the resolved trace, it
\* calls flush on the handler after the span and before it returns: no
\* exit of the hook that recorded a span is without the flush call.
C13_SpanThenFlush ==
    last.hook = "agent_fast_reply" =>
       \A i \in DOMAIN last.calls :
          (last.calls[i].op = "span" /\ last.calls[i].ok) =>
             /\ last.handler # None
             /\ \E j \in DOMAIN last.calls :
                   /\ j > i
                   /\ last.calls[j].op = "flush"
                   /\ last.calls[j].on = last.handler

C13_Witness ==
    /\ last.hook = "agent_fast_reply"
    /\ last.pre.langfuse_fast_reply_trace # None
    /\ last.preHandlerTrace # None
    /\ last.calls = <<Call("span", last.preHandlerTrace, TRUE),
                      Call("flush", last.handler, FALSE)>>

OthersOf(cbs) == SelectSeq(cbs, LAMBDA cb : cb = Other)

\* C14: at the end of every turn the callback list holds no handler of
\* this plugin, so each handler agent_prompt_prefix registered was detached
\* by the cleanup of its own turn; and no step ever drops or adds an entry
\* that others put in the list.
C14_NoOwnHandlerAfterTurn ==
    /\ [](pc = "done" => ListedHandlers = <<>>)
    /\ [][OthersOf(callbacks') = OthersOf(callbacks)]_vars

C14_Witness ==
    /\ pc = "done"
    /\ path = "normal"
    /\ turn = 2
    /\ info.prefixAppends = 1
    /\ last.preCallbacks = <<Other, last.handler>>
    /\ callbacks = <<Other>>

\* C15: in a turn whose backend calls all succeed, every backend write
\* (explicit trace creation, span, trace update) is followed before the end
\* of the turn by a flush of the client that owns the written trace: the
\* handler for its own trace, the separately constructed client kept in
\* langfuse_client for an explicit trace.
C15_WritesAreFlushed ==
    (pc = "done" /\ info.ok) => info.pending = {}

Listed(h) == \E i \in DOMAIN callbacks : callbacks[i] = h

\* C16: with two turns on distinct contexts in flight and one callback list
\* behind both (a list from the start), a handler agent_prompt_prefix has
\* registered is in the list until the cleanup of its own turn, whatever
\* the other turn's cleanup does in between; and when both turns have
\* finished the list holds no handler of either.
C16_TurnsDoNotInterfere ==
    (\A c \in Contexts : ~ctx[c].sawNone) =>
       /\ \A c \in Contexts :
             (ctx[c].pc = "registered" /\ ctx[c].path = "normal") =>
                Listed(ctx[c].langfuse_handler)
       /\ (\A c \in Contexts : ctx[c].pc = "done") => ListedHandlers = <<>>

====
